---- MODULE Spec2Model ----
(***************************************************************************)
(* A model of the escape-computer terminal game (App.tsx, types.ts,        *)
(* components/FileTree.tsx): the in-memory file tree, the command          *)
(* interpreter, the script engine with its delayed continuations, the      *)
(* checkpoint and the game phase.                                          *)
(*                                                                         *)
(* Text.  TLC strings are atomic, so a JavaScript string that the code     *)
(* splits or joins on '/' is modelled as the sequence of its atoms: the    *)
(* atom "/" for each slash and one atom for each maximal slash-free run.   *)
(* '' is << >>, '/' is <<"/">>, '/home/user' is <<"/","home","/","user">>. *)
(* Node names, passwords and script tags contain no slash and are kept as  *)
(* single atoms.  The game's Chinese file names are transliterated         *)
(* (zhengju = evidence, weizhuang = disguise, baojing = alarm).            *)
(***************************************************************************)
EXTENDS Naturals, Sequences, FiniteSets

VARIABLES
  fileSystem,         \* useState<FileNode>: the tree
  currentPath,        \* useState<string[]>: [''] is the root
  history,            \* useState<TerminalLine[]>: the transcript (see addToHistory)
  discoveredPaths,    \* useState<Set<string>>
  evidenceCollected,  \* useState<Set<string>>: the evidence ledger
  gameState,          \* useState<GameState>
  bootSequence,       \* useState<string[]>: the boot log
  bootStartedRef,     \* useRef(false): the boot guard of this process
  timers,             \* pending setTimeout continuations, in scheduling order
  checkpoint,         \* localStorage[CHECKPOINT_KEY], or NoItem
  inputs              \* number of player inputs so far (bounded by MaxInputs)

vars == <<fileSystem, currentPath, history, discoveredPaths, evidenceCollected,
          gameState, bootSequence, bootStartedRef, timers, checkpoint, inputs>>

\* ------------------------------------------------------------------ bounds
\* The player makes at most MaxInputs inputs in one run of the model: command
\* lines, double clicks in the file tree, button clicks and page reloads.
MaxInputs == 3

\* ------------------------------------------------------------------ types
FILE == "FILE"
DIRECTORY == "DIRECTORY"

BOOT == "BOOT"
PLAYING == "PLAYING"
WIN == "WIN"
LOSE == "LOSE"

\* JavaScript's undefined, for the optional string fields of FileNode.  It is
\* not a text the player can type (a token is a sequence of atoms).
undefined == "<undefined>"

\* localStorage.getItem of a key that holds nothing.
NoItem == [present |-> FALSE]

\* ------------------------------------------------------------------ text
Slash == "/"

\* A one-atom text: a name, a password, a verb.
Txt(s) == <<s>>

\* s.startsWith('/')
StartsWithSlash(s) == Len(s) > 0 /\ s[1] = Slash

RECURSIVE SplitSlash(_)
\* s.split('/').filter(p => p !== ''): the slash-free runs of s, in order.
SplitSlash(s) ==
  IF s = << >> THEN << >>
  ELSE IF Head(s) = Slash THEN SplitSlash(Tail(s))
  ELSE <<Txt(Head(s))>> \o SplitSlash(Tail(s))

RECURSIVE Join(_)
\* parts.join('/')
Join(parts) ==
  IF parts = << >> THEN << >>
  ELSE IF Len(parts) = 1 THEN parts[1]
  ELSE parts[1] \o <<Slash>> \o Join(Tail(parts))

RECURSIVE Words(_)
\* The command line again from its words: parts.join(' ')
Words(parts) ==
  IF parts = << >> THEN << >>
  ELSE IF Len(parts) = 1 THEN parts[1]
  ELSE parts[1] \o <<" ">> \o Words(Tail(parts))

RECURSIVE ReplaceFirst(_, _, _)
\* s.replace(pat, by) with a string pattern: the first occurrence only.
ReplaceFirst(s, pat, by) ==
  IF Len(s) < Len(pat) THEN s
  ELSE IF SubSeq(s, 1, Len(pat)) = pat THEN by \o SubSeq(s, Len(pat) + 1, Len(s))
  ELSE <<Head(s)>> \o ReplaceFirst(Tail(s), pat, by)

\* parts.length === 1 ? '/' : parts.join('/').replace('//', '/')
getPathString(parts) ==
  IF Len(parts) = 1 THEN <<Slash>>
  ELSE ReplaceFirst(Join(parts), <<Slash, Slash>>, <<Slash>>)

\* The root path [''].
RootPath == << << >> >>

\* ['', 'home', 'user']: the evidence-intake directory.
HomeUserPath == << << >>, Txt("home"), Txt("user") >>

\* ------------------------------------------------------------------ nodes
\* A FileNode.  Absent optional booleans are FALSE, absent optional strings are
\* undefined, and the absent children of a FILE are << >>.
Node(name, type, content, children, isHidden, password, isEvidence, scriptAction) ==
  [name |-> name, type |-> type, content |-> content, children |-> children,
   isHidden |-> isHidden, password |-> password, isLocked |-> password # undefined,
   isEvidence |-> isEvidence, scriptAction |-> scriptAction]

File(name, content) == Node(name, FILE, content, << >>, FALSE, undefined, FALSE, undefined)
Evidence(name, content) == Node(name, FILE, content, << >>, FALSE, undefined, TRUE, undefined)
Script(name, action) == Node(name, FILE, "script", << >>, FALSE, undefined, FALSE, action)
Dir(name, children) == Node(name, DIRECTORY, undefined, children, FALSE, undefined, FALSE, undefined)

\* The result null of findNode and of Array.prototype.find.
null == [type |-> "null"]

\* The index of the first child named part, or 0: children.find(c => c.name === part).
FindIndex(children, part) ==
  IF \E i \in 1..Len(children) : Txt(children[i].name) = part
  THEN CHOOSE i \in 1..Len(children) :
         /\ Txt(children[i].name) = part
         /\ \A j \in 1..(i - 1) : Txt(children[j].name) # part
  ELSE 0

\* children.find(c => c.name === part) || null
FindChild(node, part) ==
  IF node = null THEN null
  ELSE LET i == FindIndex(node.children, part)
       IN IF i = 0 THEN null ELSE node.children[i]

RECURSIVE Walk(_, _)
\* The loop of findNode: descend from current along parts.
Walk(current, parts) ==
  IF parts = << >> THEN current
  ELSE IF current.type # DIRECTORY THEN null
  ELSE LET found == FindChild(current, Head(parts))
       IN IF found = null THEN null ELSE Walk(found, Tail(parts))

findNode(pathParts, root) ==
  IF Len(pathParts) = 1 /\ pathParts[1] = << >> THEN root
  ELSE Walk(root, IF pathParts # << >> /\ pathParts[1] = << >>
                  THEN Tail(pathParts) ELSE pathParts)

\* ------------------------------------------------------------------ content
\* The password that the CRACK script reveals (the key of /data).
CrackKey == "fygr5673o"

\* The directory tree that a new game starts with (constants.ts).
INITIAL_FILE_SYSTEM ==
  Dir("", <<
    Dir("home", <<
      Dir("user", <<
        [Script("weizhuang.sh", "DISGUISE_SCRIPT") EXCEPT !.isHidden = TRUE]
      >>)
    >>),
    Node("data", DIRECTORY, undefined, <<
        Evidence("zhengju_1.txt", "log 1"),
        [Evidence("ChenBing-LiuQingyuan", "chat") EXCEPT !.isHidden = TRUE],
        Evidence("zhengju_2.txt", "log 2"),
        Evidence("zhengju_3.txt", "log 3"),
        Evidence("zhengju_4.txt", "log 4"),
        Evidence("zhengju_5.txt", "log 5"),
        Node("zhengju_6.txt", FILE, "log 6", << >>, FALSE, "1024", TRUE, undefined),
        [Evidence("zhengju_7.txt", "log 7") EXCEPT !.isHidden = TRUE],
        Evidence("zhengju_8.txt", "log 8")
      >>, FALSE, CrackKey, FALSE, undefined),
    Node("vault", DIRECTORY, undefined, <<
        Dir("inner", << >>),
        File("memo.txt", "memo")
      >>, FALSE, "0614", FALSE, undefined),
    [Dir("lab", << File("note.txt", "note") >>) EXCEPT !.isHidden = TRUE],
    Script("baojing.sh", "ALARM_SCRIPT"),
    Script("seconddemo.sh", "CRACK_SCRIPT"),
    Node("archive", DIRECTORY, undefined, << File("old.txt", "old") >>,
         TRUE, "7788", FALSE, undefined)
  >>)

\* ------------------------------------------------------------------ mutation
\* Object.assign(target, updates): updates is a record of some FileNode fields.
Assign(target, updates) ==
  [f \in DOMAIN target |-> IF f \in DOMAIN updates THEN updates[f] ELSE target[f]]

RECURSIVE Patch(_, _, _)
\* The tree below current after Object.assign on the node that Walk reaches
\* along parts.  The code assigns into the node object in place, under a
\* shallow copy of the root: the tree value seen from the new root is this one.
Patch(current, parts, updates) ==
  IF parts = << >> THEN Assign(current, updates)
  ELSE LET i == FindIndex(current.children, Head(parts))
       IN [current EXCEPT !.children =
             [@ EXCEPT ![i] = Patch(@, Tail(parts), updates)]]

\* Mutant of updateFileSystemNode: the copy is taken of the initial tree
\* instead of the current one.
updateInitialTree(fs, pathParts, updates) ==
  IF findNode(pathParts, INITIAL_FILE_SYSTEM) = null THEN fs
  ELSE Patch(INITIAL_FILE_SYSTEM,
             IF pathParts # << >> /\ pathParts[1] = << >>
             THEN Tail(pathParts) ELSE pathParts, updates)

\* The new value of fileSystem after updateFileSystemNode(pathParts, updates)
\* called on the tree fs; fs itself when the path finds no node.
updateFileSystemNode(fs, pathParts, updates) ==
  IF findNode(pathParts, fs) = null THEN fs
  ELSE Patch(fs, IF pathParts # << >> /\ pathParts[1] = << >>
                 THEN Tail(pathParts) ELSE pathParts, updates)

\* Mutant of RemoveNamed: no child is kept.
RemoveAll(children, name) == << >>

\* c => c.name !== name, kept in order
RemoveNamed(children, name) ==
  LET keep == {i \in 1..Len(children) : Txt(children[i].name) # name}
      RECURSIVE Pick(_)
      Pick(i) == IF i > Len(children) THEN << >>
                 ELSE IF i \in keep THEN <<children[i]>> \o Pick(i + 1)
                 ELSE Pick(i + 1)
  IN Pick(1)

\* The new value of fileSystem after deleteNode(name) with the given current path.
deleteNode(fs, parentPath, name) ==
  LET parent == findNode(parentPath, fs)
  IN IF parent = null THEN fs
     ELSE updateFileSystemNode(fs, parentPath,
            [children |-> RemoveNamed(parent.children, name)])

\* ------------------------------------------------------------------ objects
\* The tree as JavaScript holds it: objects with an identity, the children of
\* a node being references to node objects.  An object of the tree is named
\* by its position, the sequence of child indices from the root object << >>.
RECURSIVE Objects(_, _)
Objects(node, id) ==
  {id} \cup UNION { Objects(node.children[i], Append(id, i)) : i \in 1..Len(node.children) }

RECURSIVE ObjectAt(_, _)
ObjectAt(node, id) ==
  IF id = << >> THEN node ELSE ObjectAt(node.children[Head(id)], Tail(id))

\* The root object that the state variable fileSystem refers to.
RootObject == << >>

\* The object that { ...fileSystem } creates.
NewFS == <<0>>

\* No object: the null of findNode on objects.
NoObject == <<0, 0>>

\* The objects of the tree root, each with its properties; children holds the
\* identities of the child objects.
Heap(root) ==
  [id \in Objects(root, RootObject) |->
     [ObjectAt(root, id) EXCEPT !.children = [i \in 1..Len(@) |-> Append(id, i)]]]

\* const newFS = { ...fileSystem }: a new object with the properties of the
\* root object, its children array (the same child objects) among them.
Spread(heap, rootId) ==
  [id \in DOMAIN heap \cup {NewFS} |-> IF id = NewFS THEN heap[rootId] ELSE heap[id]]

\* children.find(c => c.name === part) on objects
FindObject(heap, children, part) ==
  IF \E i \in 1..Len(children) : Txt(heap[children[i]].name) = part
  THEN children[CHOOSE i \in 1..Len(children) :
                  /\ Txt(heap[children[i]].name) = part
                  /\ \A j \in 1..(i - 1) : Txt(heap[children[j]].name) # part]
  ELSE NoObject

RECURSIVE WalkObjects(_, _, _)
\* The loop of findNode on objects.
WalkObjects(heap, current, parts) ==
  IF parts = << >> THEN current
  ELSE IF heap[current].type # DIRECTORY THEN NoObject
  ELSE LET found == FindObject(heap, heap[current].children, Head(parts))
       IN IF found = NoObject THEN NoObject ELSE WalkObjects(heap, found, Tail(parts))

\* findNode(pathParts, root) on objects: the object it returns.
findObject(heap, pathParts, rootId) ==
  IF Len(pathParts) = 1 /\ pathParts[1] = << >> THEN rootId
  ELSE WalkObjects(heap, rootId, IF pathParts # << >> /\ pathParts[1] = << >>
                                 THEN Tail(pathParts) ELSE pathParts)

\* updateFileSystemNode(pathParts, updates) on objects, for updates that hold
\* no node: the objects afterwards, and the object that setFileSystem was
\* called with (the old root object when it was not called).
updateObjects(heap, pathParts, updates) ==
  LET h == Spread(heap, RootObject)
      target == findObject(h, pathParts, NewFS)
  IN IF target # NoObject
     THEN [heap |-> [h EXCEPT ![target] = Assign(@, updates)], root |-> NewFS]
     ELSE [heap |-> h, root |-> RootObject]

\* deleteNode(name) on objects, with the given current path.
deleteObjects(heap, parentPath, name) ==
  LET h == Spread(heap, RootObject)
      parent == findObject(h, parentPath, NewFS)
      Other(c) == Txt(h[c].name) # name
  IN IF parent # NoObject
     THEN [heap |-> [h EXCEPT ![parent].children = SelectSeq(@, Other)], root |-> NewFS]
     ELSE [heap |-> h, root |-> RootObject]

RECURSIVE TreeOf(_, _)
\* The tree value that the object id shows.
TreeOf(heap, id) ==
  [heap[id] EXCEPT !.children = [i \in 1..Len(@) |-> TreeOf(heap, @[i])]]

RECURSIVE Reachable(_, _)
\* The objects that are reached from the object id.
Reachable(heap, id) ==
  {id} \cup UNION { Reachable(heap, heap[id].children[i]) : i \in 1..Len(heap[id].children) }

\* ------------------------------------------------------------------ paths
\* Mutant of resolvePath: a relative target is split at its slashes.
resolveSplitting(target, curPath) ==
  IF target = <<Slash>> THEN RootPath
  ELSE IF target = Txt("..")
       THEN IF Len(curPath) <= 1 THEN RootPath
            ELSE SubSeq(curPath, 1, Len(curPath) - 1)
  ELSE IF StartsWithSlash(target) THEN << << >> >> \o SplitSlash(target)
  ELSE curPath \o SplitSlash(target)

\* resolvePath(target), called in a render whose current path is curPath
resolvePath(target, curPath) ==
  IF target = <<Slash>> THEN RootPath
  ELSE IF target = Txt("..")
       THEN IF Len(curPath) <= 1 THEN RootPath
            ELSE SubSeq(curPath, 1, Len(curPath) - 1)
  ELSE IF StartsWithSlash(target) THEN << << >> >> \o SplitSlash(target)
  ELSE Append(curPath, target)

\* ------------------------------------------------------------------ transcript
\* A TerminalLine without its random id.  content is the printed text: the
\* message (named by its first words) and the interpolated value, a text.
Line(type, msg, arg, path) ==
  [type |-> type, content |-> [msg |-> msg, arg |-> arg], path |-> path]

\* addToHistory(type, content), called from a render whose current path is
\* curPath.  history keeps the transcript from its last input line on: the
\* lines before it are read by no handler and are dropped.
addToHistory(s, curPath, type, msg, arg) ==
  IF type = "input"
  THEN [s EXCEPT !.history = <<Line(type, msg, arg,
                      IF Len(curPath) = 1 THEN <<Slash>>
                      ELSE ReplaceFirst(Join(curPath), <<Slash, Slash>>, <<Slash>>))>>]
  ELSE [s EXCEPT !.history = Append(@, Line(type, msg, arg, <<undefined>>))]

\* The program state a handler reads and writes, as one record.
State ==
  [fileSystem |-> fileSystem, currentPath |-> currentPath, history |-> history,
   discoveredPaths |-> discoveredPaths, evidenceCollected |-> evidenceCollected,
   gameState |-> gameState, bootSequence |-> bootSequence,
   timers |-> timers, checkpoint |-> checkpoint]

\* ------------------------------------------------------------------ storage
\* The optional string properties of a FileNode: JSON.stringify leaves out a
\* property whose value is undefined, and reading a property that an object
\* lacks gives undefined.
OptionalKeys == {"content", "password", "scriptAction"}

NodeKeys ==
  {"name", "type", "content", "children", "isHidden", "password", "isLocked",
   "isEvidence", "scriptAction"}

RECURSIVE stringifyNode(_)
\* JSON.stringify of a FileNode, as the object that the text denotes.
stringifyNode(node) ==
  [k \in NodeKeys \ {j \in OptionalKeys : node[j] = undefined} |->
     IF k = "children"
     THEN [i \in 1..Len(node.children) |-> stringifyNode(node.children[i])]
     ELSE node[k]]

RECURSIVE parseNode(_)
\* The FileNode that the program reads from a parsed object.
parseNode(obj) ==
  [k \in NodeKeys |->
     IF k \notin DOMAIN obj THEN undefined
     ELSE IF k = "children"
     THEN [i \in 1..Len(obj.children) |-> parseNode(obj.children[i])]
     ELSE obj[k]]

\* JSON.stringify of a TerminalLine: path is undefined unless the line is an
\* input line.
stringifyLine(line) ==
  [k \in {"type", "content", "path"} \ (IF line.path = <<undefined>> THEN {"path"} ELSE {}) |->
     line[k]]

\* The TerminalLine that the program reads from a parsed object.
parseLine(obj) ==
  [k \in {"type", "content", "path"} |->
     IF k \in DOMAIN obj THEN obj[k] ELSE <<undefined>>]

\* Mutant of ArrayFrom: the Set is stored as it is, and JSON.stringify turns
\* a Set into an object without properties.
setAsObject(set) == << >>

RECURSIVE ArrayFrom(_)
\* Array.from(set): the members of the Set as an array.
ArrayFrom(set) ==
  IF set = {} THEN << >>
  ELSE LET x == CHOOSE y \in set : TRUE
       IN <<x>> \o ArrayFrom(set \ {x})

\* new Set(array)
NewSet(array) == {array[i] : i \in 1..Len(array)}

\* The item that the auto-save effect stores under SAVE_KEY after a render
\* with the state s: JSON.stringify(saveData).
stringifySave(s) ==
  [present |-> TRUE,
   fileSystem |-> stringifyNode(s.fileSystem),
   currentPath |-> s.currentPath,
   history |-> [i \in 1..Len(s.history) |-> stringifyLine(s.history[i])],
   discoveredPaths |-> ArrayFrom(s.discoveredPaths),
   evidenceCollected |-> ArrayFrom(s.evidenceCollected),
   gameState |-> s.gameState,
   bootSequence |-> s.bootSequence]

\* A pending setTimeout continuation with the values its closure captured.
Timer(kind, delay, index, hasForbidden, hasAllRequired) ==
  [kind |-> kind, delay |-> delay, index |-> index,
   hasForbidden |-> hasForbidden, hasAllRequired |-> hasAllRequired]

\* setTimeout(callback, delay)
setTimeout(s, timer) == [s EXCEPT !.timers = Append(@, timer)]

\* A JavaScript string used as a condition: undefined and '' are falsy.
Truthy(str) == str # undefined /\ str # ""

\* ------------------------------------------------------------------ scripts
AlarmDelay == 1000
CrackDelay == 1500
DisguiseDelay == 2000
BootDoneDelay == 800

\* evidenceCollected.size < 6
MinEvidence == 6

required ==
  <<"zhengju_1.txt", "ChenBing-LiuQingyuan", "zhengju_3.txt",
    "zhengju_5.txt", "zhengju_6.txt", "zhengju_8.txt">>

forbidden == <<"zhengju_4.txt", "zhengju_7.txt">>

\* userFolder?.children?.map(c => c.name) || [], as the set that includes() tests
userFiles(fs) ==
  LET userFolder == findNode(HomeUserPath, fs)
  IN IF userFolder = null THEN {}
     ELSE {userFolder.children[i].name : i \in 1..Len(userFolder.children)}

\* Mutant of hasAllRequired: /home/user must hold the required names only.
hasOnlyRequired(fs) == userFiles(fs) = {required[i] : i \in 1..Len(required)}

\* required.every(f => userFiles.includes(f))
hasAllRequired(fs) == \A i \in 1..Len(required) : required[i] \in userFiles(fs)

\* forbidden.some(f => userFiles.includes(f))
hasForbidden(fs) == \E i \in 1..Len(forbidden) : forbidden[i] \in userFiles(fs)

\* Mutant of saveCheckpoint: the values stored are the latest ones, not those
\* of the render the handler runs in.
saveCheckpointLatest(s, r, fs) ==
  [s EXCEPT !.checkpoint =
     [present |-> TRUE,
      fileSystem |-> fs,
      currentPath |-> s.currentPath,
      history |-> s.history,
      discoveredPaths |-> s.discoveredPaths,
      evidenceCollected |-> s.evidenceCollected,
      gameState |-> PLAYING,
      bootSequence |-> s.bootSequence]]

\* The item that saveCheckpoint stores under CHECKPOINT_KEY.  r is the render
\* the handler runs in (its state values are the ones the closure holds); the
\* tree is read through r's root object and so shows the nodes as the handler
\* has assigned them so far (fs).
saveCheckpoint(s, r, fs) ==
  [s EXCEPT !.checkpoint =
     [present |-> TRUE,
      fileSystem |-> fs,
      currentPath |-> r.currentPath,
      history |-> r.history,
      discoveredPaths |-> r.discoveredPaths,
      evidenceCollected |-> r.evidenceCollected,
      gameState |-> PLAYING,
      bootSequence |-> r.bootSequence]]

\* Mutant of evidenceIncomplete: the check of the ledger is left out.
evidenceNeverIncomplete(r) == FALSE

\* evidenceCollected.size < 6
evidenceIncomplete(r) == Cardinality(r.evidenceCollected) < MinEvidence

\* executeScript(action, args) called in render r with the state so far s.
executeScript(s, r, action) ==
  CASE action = "ALARM_SCRIPT" ->
         setTimeout(addToHistory(s, r.currentPath, "system", "connecting", << >>),
                    Timer("ALARM_SCRIPT", AlarmDelay, 0, FALSE, FALSE))
    [] action = "CRACK_SCRIPT" ->
         setTimeout(addToHistory(s, r.currentPath, "system", "cracking", << >>),
                    Timer("CRACK_SCRIPT", CrackDelay, 0, FALSE, FALSE))
    [] action = "DISGUISE_SCRIPT" ->
         IF evidenceIncomplete(r)
         THEN addToHistory(s, r.currentPath, "output", "evidence incomplete", << >>)
         ELSE setTimeout(
                saveCheckpoint(
                  addToHistory(s, r.currentPath, "system", "packing", << >>),
                  r, s.fileSystem),
                Timer("DISGUISE_SCRIPT", DisguiseDelay, 0,
                      hasForbidden(s.fileSystem), hasAllRequired(s.fileSystem)))
    [] OTHER -> s

\* ------------------------------------------------------------------ evidence
\* Mutant of collectEvidence: neither the ledger nor /home/user is consulted.
collectAlways(s, r, node) ==
  IF node.isEvidence
  THEN LET s1 == addToHistory(
                   [s EXCEPT !.evidenceCollected = @ \cup {node.name}],
                   r.currentPath, "system", "evidence collected", Txt(node.name))
           homeUser == findNode(HomeUserPath, s.fileSystem)
       IN IF homeUser # null /\ homeUser.type = DIRECTORY
          THEN [s1 EXCEPT !.fileSystem =
                  updateFileSystemNode(s.fileSystem, HomeUserPath,
                    [children |-> Append(homeUser.children,
                                         [node EXCEPT !.isEvidence = FALSE])])]
          ELSE s1
  ELSE s

\* Mutant of collectEvidence: the copy takes the place of the children of
\* /home/user instead of being added to them.
collectReplacing(s, r, node) ==
  IF node.isEvidence /\ node.name \notin r.evidenceCollected
  THEN LET s1 == addToHistory(
                   [s EXCEPT !.evidenceCollected = @ \cup {node.name}],
                   r.currentPath, "system", "evidence collected", Txt(node.name))
           homeUser == findNode(HomeUserPath, s.fileSystem)
       IN IF homeUser # null /\ homeUser.type = DIRECTORY
             /\ FindIndex(homeUser.children, Txt(node.name)) = 0
          THEN [s1 EXCEPT !.fileSystem =
                  updateFileSystemNode(s.fileSystem, HomeUserPath,
                    [children |-> <<[node EXCEPT !.isEvidence = FALSE]>>])]
          ELSE s1
  ELSE s

\* The "Evidence Collection Logic" of cat and search for the file node, as it
\* is when the block runs.
collectEvidence(s, r, node) ==
  IF node.isEvidence /\ node.name \notin r.evidenceCollected
  THEN LET s1 == addToHistory(
                   [s EXCEPT !.evidenceCollected = @ \cup {node.name}],
                   r.currentPath, "system", "evidence collected", Txt(node.name))
           homeUser == findNode(HomeUserPath, s.fileSystem)
       IN IF homeUser # null /\ homeUser.type = DIRECTORY
             /\ FindIndex(homeUser.children, Txt(node.name)) = 0
          THEN [s1 EXCEPT !.fileSystem =
                  updateFileSystemNode(s.fileSystem, HomeUserPath,
                    [children |-> Append(homeUser.children,
                                         [node EXCEPT !.isEvidence = FALSE])])]
          ELSE s1
  ELSE s

\* ------------------------------------------------------------------ commands
\* The text of a single-atom token as a name; a token with a slash in it is
\* the name of no node.
NameOf(token) == IF Len(token) = 1 THEN token[1] ELSE undefined

\* visibleChildren.join('\n') of ls: one atom per entry, "[DIR] " before the
\* name of a directory.
RECURSIVE Listing(_)
Listing(children) ==
  IF children = << >> THEN << >>
  ELSE LET c == Head(children)
           rest == Listing(Tail(children))
       IN IF c.isHidden THEN rest
          ELSE (IF c.type = DIRECTORY THEN <<"[DIR] ", c.name>> ELSE <<c.name>>)
               \o (IF rest = << >> THEN << >> ELSE <<"\n">> \o rest)

\* Mutant of markDiscovered: the parent directory is marked as well.
markWithParent(prev, curPath) ==
  prev \cup {getPathString(curPath)}
       \cup (IF Len(curPath) > 1
             THEN {getPathString(SubSeq(curPath, 1, Len(curPath) - 1))} ELSE {})

\* prev => new Set(prev).add(getPathString(currentPath))
markDiscovered(prev, curPath) == prev \cup {getPathString(curPath)}

\* case 'ls'
ls(s, r) ==
  LET node == findNode(r.currentPath, r.fileSystem)
  IN IF node # null /\ node.type = DIRECTORY
     THEN LET s1 == [s EXCEPT !.discoveredPaths = markDiscovered(@, r.currentPath)]
              visibleChildren == Listing(node.children)
          IN IF visibleChildren = << >>
             THEN addToHistory(s1, r.currentPath, "output", "(empty directory)", << >>)
             ELSE addToHistory(s1, r.currentPath, "output", "listing", visibleChildren)
     ELSE s

\* Mutant of secretMatches: the comparison is left out.
secretAlwaysMatches(args, targetNode) == TRUE

\* args[1] === targetNode.password
secretMatches(args, targetNode) ==
  Len(args) >= 2 /\ args[2] = Txt(targetNode.password)

\* case 'cd'
cd(s, r, args) ==
  IF Len(args) = 0 THEN [s EXCEPT !.currentPath = RootPath]
  ELSE
    LET targetPath == resolvePath(args[1], r.currentPath)
        targetNode == findNode(targetPath, r.fileSystem)
    IN IF targetNode = null \/ targetNode.type # DIRECTORY
       THEN addToHistory(s, r.currentPath, "output", "directory not found", args[1])
       ELSE IF Truthy(targetNode.password)
       THEN IF secretMatches(args, targetNode)
            THEN [s EXCEPT
                    !.fileSystem = updateFileSystemNode(s.fileSystem, targetPath,
                                     [isLocked |-> FALSE, password |-> undefined]),
                    !.currentPath = targetPath]
            ELSE addToHistory(s, r.currentPath, "output", "access denied",
                              Txt(targetNode.name))
       ELSE [s EXCEPT !.currentPath = targetPath]

\* Mutant of hiddenFile: only a hidden file that is also locked is kept back.
hiddenLockedFile(fileNode) == fileNode.isHidden /\ fileNode.isLocked

\* if (fileNode.isHidden)
hiddenFile(fileNode) == fileNode.isHidden

\* case 'cat'
cat(s, r, args) ==
  IF Len(args) = 0
  THEN addToHistory(s, r.currentPath, "output", "Usage: cat <filename>", << >>)
  ELSE
    LET byPath == findNode(resolvePath(args[1], r.currentPath), r.fileSystem)
        fileNode == IF byPath = null \/ byPath.type # FILE
                    THEN FindChild(findNode(r.currentPath, r.fileSystem), args[1])
                    ELSE byPath
    IN IF fileNode = null \/ fileNode.type # FILE
       THEN addToHistory(s, r.currentPath, "output", "file not found", args[1])
       ELSE IF hiddenFile(fileNode)
       THEN addToHistory(s, r.currentPath, "output", "file not found (maybe hidden)", args[1])
       ELSE LET s1 == collectEvidence(s, r, fileNode)
            IN IF Truthy(fileNode.scriptAction)
               THEN executeScript(s1, r, fileNode.scriptAction)
               ELSE addToHistory(s1, r.currentPath, "output", "content",
                      IF Truthy(fileNode.content) THEN Txt(fileNode.content) ELSE << >>)

\* Mutant of search: a revealed directory is entered before its password is
\* looked at.
searchEntersGated(s, r, args) ==
  IF Len(args) = 0
  THEN addToHistory(s, r.currentPath, "output", "Usage: search <filename>", << >>)
  ELSE
    LET term == args[1]
        found0 == FindChild(findNode(r.currentPath, r.fileSystem), term)
    IN IF found0 = null
       THEN addToHistory(s, r.currentPath, "output", "no hidden file of this name", << >>)
       ELSE IF ~found0.isHidden
       THEN addToHistory(s, r.currentPath, "output", "already exists", Txt(found0.name))
       ELSE
         LET childPath == Append(r.currentPath, Txt(found0.name))
             \* updateFileSystemNode assigns into the object that found names
             found == [found0 EXCEPT !.isHidden = FALSE]
             s1 == addToHistory(
                     [s EXCEPT !.fileSystem =
                        updateFileSystemNode(s.fileSystem, childPath, [isHidden |-> FALSE])],
                     r.currentPath, "system", "found hidden file", Txt(found.name))
         IN IF found.type = DIRECTORY
            THEN addToHistory([s1 EXCEPT !.currentPath = childPath],
                              r.currentPath, "system", "entered", Txt(found.name))
            ELSE IF Truthy(found.password)
            THEN addToHistory(s1, r.currentPath, "output", "password needed", Txt(found.name))
            ELSE IF Truthy(found.scriptAction)
            THEN addToHistory(s1, r.currentPath, "output", "found script file", Txt(found.name))
            ELSE collectEvidence(
                   addToHistory(s1, r.currentPath, "output", "content",
                     IF Truthy(found.content) THEN Txt(found.content) ELSE << >>),
                   r, found)

\* case 'search'
search(s, r, args) ==
  IF Len(args) = 0
  THEN addToHistory(s, r.currentPath, "output", "Usage: search <filename>", << >>)
  ELSE
    LET term == args[1]
        found0 == FindChild(findNode(r.currentPath, r.fileSystem), term)
    IN IF found0 = null
       THEN addToHistory(s, r.currentPath, "output", "no hidden file of this name", << >>)
       ELSE IF ~found0.isHidden
       THEN addToHistory(s, r.currentPath, "output", "already exists", Txt(found0.name))
       ELSE
         LET childPath == Append(r.currentPath, Txt(found0.name))
             \* updateFileSystemNode assigns into the object that found names
             found == [found0 EXCEPT !.isHidden = FALSE]
             s1 == addToHistory(
                     [s EXCEPT !.fileSystem =
                        updateFileSystemNode(s.fileSystem, childPath, [isHidden |-> FALSE])],
                     r.currentPath, "system", "found hidden file", Txt(found.name))
         IN IF Truthy(found.password)
            THEN addToHistory(s1, r.currentPath, "output", "password needed", Txt(found.name))
            ELSE IF found.type = DIRECTORY
            THEN addToHistory([s1 EXCEPT !.currentPath = childPath],
                              r.currentPath, "system", "entered", Txt(found.name))
            ELSE IF Truthy(found.scriptAction)
            THEN addToHistory(s1, r.currentPath, "output", "found script file", Txt(found.name))
            ELSE collectEvidence(
                   addToHistory(s1, r.currentPath, "output", "content",
                     IF Truthy(found.content) THEN Txt(found.content) ELSE << >>),
                   r, found)

\* Mutant of inUserFolder: rm is allowed in every directory.
inAnyFolder(curPath) == TRUE

\* currentPathStr === '/home/user'
inUserFolder(curPath) == getPathString(curPath) = <<Slash, "home", Slash, "user">>

\* Mutant of rm: the name is not taken out of the ledger.
rmKeepsLedger(s, r, args) ==
  IF Len(args) = 0
  THEN addToHistory(s, r.currentPath, "output", "Usage: rm <filename>", << >>)
  ELSE IF ~inUserFolder(r.currentPath)
  THEN addToHistory(s, r.currentPath, "output", "permission denied", << >>)
  ELSE
    LET fileName == args[1]
        fileExists == FindChild(findNode(r.currentPath, r.fileSystem), fileName)
    IN IF fileExists # null
       THEN addToHistory(
              [s EXCEPT
                 !.fileSystem = deleteNode(s.fileSystem, r.currentPath, fileName)],
              r.currentPath, "output", "deleted", fileName)
       ELSE addToHistory(s, r.currentPath, "output", "File not found", fileName)

\* case 'rm'
rm(s, r, args) ==
  IF Len(args) = 0
  THEN addToHistory(s, r.currentPath, "output", "Usage: rm <filename>", << >>)
  ELSE IF ~inUserFolder(r.currentPath)
  THEN addToHistory(s, r.currentPath, "output", "permission denied", << >>)
  ELSE
    LET fileName == args[1]
        fileExists == FindChild(findNode(r.currentPath, r.fileSystem), fileName)
    IN IF fileExists # null
       THEN addToHistory(
              [s EXCEPT
                 !.fileSystem = deleteNode(s.fileSystem, r.currentPath, fileName),
                 !.evidenceCollected = r.evidenceCollected \ {NameOf(fileName)}],
              r.currentPath, "output", "deleted", fileName)
       ELSE addToHistory(s, r.currentPath, "output", "File not found", fileName)

\* The script verbs './weizhuang.sh', './baojing.sh' and './seconddemo.sh'.
ScriptVerbs ==
  { <<".", Slash, "weizhuang.sh">>, <<".", Slash, "baojing.sh">>,
    <<".", Slash, "seconddemo.sh">> }

\* case './weizhuang.sh': case './baojing.sh': case './seconddemo.sh'
runScript(s, r, cmd) ==
  LET scriptName == ReplaceFirst(cmd, <<".", Slash>>, << >>)
      scriptNode == FindChild(findNode(r.currentPath, r.fileSystem), scriptName)
  IN IF scriptNode # null /\ Truthy(scriptNode.scriptAction)
     THEN executeScript(s, r, scriptNode.scriptAction)
     ELSE addToHistory(s, r.currentPath, "output", "Script not found", scriptName)

\* handleCommand(cmdStr) for a non-blank line: parts is cmdStr.trim().split(/\s+/),
\* r the state of the render in which the line is entered.
handleCommand(r, parts) ==
  LET cmd == parts[1]
      args == Tail(parts)
      s == addToHistory(r, r.currentPath, "input", "input", Words(parts))
  IN CASE cmd = Txt("help") -> addToHistory(s, r.currentPath, "output", "help", << >>)
       [] cmd = Txt("ls") -> ls(s, r)
       [] cmd = Txt("cd") -> cd(s, r, args)
       [] cmd = Txt("cat") -> cat(s, r, args)
       [] cmd = Txt("search") -> search(s, r, args)
       [] cmd = Txt("rm") -> rm(s, r, args)
       [] cmd \in ScriptVerbs -> runScript(s, r, cmd)
       [] OTHER -> addToHistory(s, r.currentPath, "output", "Command not found", cmd)

\* ------------------------------------------------------------------ file tree
\* FileTree.tsx: discoveredPaths.has(path) || path === '/'
isDiscovered(path, discovered) == path \in discovered \/ path = <<Slash>>

RECURSIVE Navigable(_, _, _)
\* The paths on which a double click calls onNavigate: the rendered nodes that
\* are directories and discovered.  The children of a node are rendered when
\* the node is discovered and the child is not hidden.
Navigable(node, path, discovered) ==
  IF node.type # DIRECTORY \/ ~isDiscovered(path, discovered) THEN {}
  ELSE {path} \cup
       UNION { Navigable(node.children[i],
                         (IF path = <<Slash>> THEN << >> ELSE path)
                           \o <<Slash, node.children[i].name>>,
                         discovered)
               : i \in {j \in 1..Len(node.children) : ~node.children[j].isHidden} }

RECURSIVE Rendered(_, _, _)
\* The paths of the nodes that FileTreeNode renders for node at path: the node
\* itself and, when it is a discovered directory, its children that are not
\* hidden, each with what it renders.
Rendered(node, path, discovered) ==
  {path} \cup
  (IF node.type = DIRECTORY /\ isDiscovered(path, discovered)
   THEN UNION { Rendered(node.children[i],
                         (IF path = <<Slash>> THEN << >> ELSE path)
                           \o <<Slash, node.children[i].name>>,
                         discovered)
                : i \in {j \in 1..Len(node.children) : ~node.children[j].isHidden} }
   ELSE {})

\* Mutant of handleTreeNavigate: the path string is not split at its slashes.
navigateUnsplit(pathStr) ==
  IF pathStr = << >> \/ pathStr = <<Slash>> THEN RootPath
  ELSE << << >>, pathStr >>

\* handleTreeNavigate(pathStr): the new current path
handleTreeNavigate(pathStr) ==
  IF pathStr = << >> \/ pathStr = <<Slash>> THEN RootPath
  ELSE << << >> >> \o SplitSlash(pathStr)

\* ------------------------------------------------------------------ process
BootStepMin == 300

steps ==
  <<"Initializing Kernel...", "Loading Drivers...", "Mounting File System...",
    "Checking Memory...", "System OK.", "Welcome to Linux Terminal OS v0.9.2">>

\* The timers that the boot effect schedules: step i is due after the sum of
\* i random delays of 300 to 800 ms, so the steps are due in their order.
\* Mutant of BootTimers: the last step is not scheduled.
BootTimersButLast ==
  [i \in 1..(Len(steps) - 1) |-> Timer("BOOT_STEP", BootStepMin * i, i, FALSE, FALSE)]

BootTimers == [i \in 1..Len(steps) |-> Timer("BOOT_STEP", BootStepMin * i, i, FALSE, FALSE)]

\* The return value of initializeGameState when nothing is saved.
DefaultState ==
  [fileSystem |-> INITIAL_FILE_SYSTEM, currentPath |-> RootPath, history |-> << >>,
   discoveredPaths |-> {<<Slash>>}, evidenceCollected |-> {},
   gameState |-> BOOT, bootSequence |-> << >>]

\* initializeGameState() with the item saved under SAVE_KEY, read as the
\* useState initialisers read it.
initializeGameState(saved) ==
  IF saved.present
  THEN [fileSystem |-> parseNode(saved.fileSystem),
        currentPath |-> saved.currentPath,
        history |-> [i \in 1..Len(saved.history) |-> parseLine(saved.history[i])],
        discoveredPaths |-> NewSet(saved.discoveredPaths),
        evidenceCollected |-> NewSet(saved.evidenceCollected),
        gameState |-> saved.gameState,
        bootSequence |-> saved.bootSequence]
  ELSE DefaultState

\* ------------------------------------------------------------------ inputs
Secrets == {CrackKey, "0614", "wrong"}

CdTargets ==
  { <<"..">>, <<Slash, "data">>, <<Slash, "vault">>, <<Slash, "home", Slash, "user">>,
    <<Slash, "vault", Slash, "inner">>, <<"lab">> }

CatArgs ==
  { <<"zhengju_1.txt">>, <<Slash, "data", Slash, "zhengju_2.txt">>,
    <<Slash, "data", Slash, "zhengju_4.txt">>, <<"ChenBing-LiuQingyuan">>,
    <<"weizhuang.sh">>, <<Slash, "vault", Slash, "memo.txt">>, <<"zhengju_6.txt">> }

SearchArgs ==
  { <<"ChenBing-LiuQingyuan">>, <<"zhengju_1.txt">>, <<"lab">>, <<"weizhuang.sh">>,
    <<"archive">> }

RmArgs == { <<"zhengju_1.txt">>, <<"zhengju_4.txt">> }

\* The command lines the player enters, as their words.
Commands ==
  { <<Txt("ls")>>, <<Txt("cd")>>, <<Txt("pwd")>> }
  \cup { <<Txt("cd"), t>> : t \in CdTargets }
  \cup { <<Txt("cd"), t, Txt(p)>> : t \in {<<Slash, "data">>, <<Slash, "vault">>}, p \in Secrets }
  \cup { <<Txt("cat"), a>> : a \in CatArgs }
  \cup { <<Txt("search"), a>> : a \in SearchArgs }
  \cup { <<Txt("rm"), a>> : a \in RmArgs }
  \cup { <<v>> : v \in ScriptVerbs }

\* ------------------------------------------------------------------ start
RECURSIVE Replay(_, _)
\* The state after the command lines cmds, entered one after the other.
Replay(s, cmds) ==
  IF cmds = << >> THEN s ELSE Replay(handleCommand(s, Head(cmds)), Tail(cmds))

\* The state in which the boot sequence leaves a new game.
AfterBoot ==
  [fileSystem |-> INITIAL_FILE_SYSTEM, currentPath |-> RootPath,
   history |-> <<Line("system", "connection established", << >>, <<undefined>>)>>,
   discoveredPaths |-> {<<Slash>>}, evidenceCollected |-> {},
   gameState |-> PLAYING, bootSequence |-> steps,
   timers |-> << >>, checkpoint |-> NoItem]

\* A save of an earlier process of the same session: the player has opened
\* /data, collected every file that /data shows and gone to /home/user.
SavedGame ==
  LET s == Replay(AfterBoot, <<
             <<Txt("cd"), <<Slash, "data">>, Txt(CrackKey)>>,
             <<Txt("cat"), Txt("zhengju_1.txt")>>,
             <<Txt("search"), Txt("ChenBing-LiuQingyuan")>>,
             <<Txt("cat"), Txt("zhengju_2.txt")>>,
             <<Txt("cat"), Txt("zhengju_3.txt")>>,
             <<Txt("cat"), Txt("zhengju_4.txt")>>,
             <<Txt("cat"), Txt("zhengju_5.txt")>>,
             <<Txt("cat"), Txt("zhengju_6.txt")>>,
             <<Txt("cat"), Txt("zhengju_8.txt")>>,
             <<Txt("cd"), <<Slash, "home", Slash, "user">>>> >>)
  IN [fileSystem |-> s.fileSystem, currentPath |-> s.currentPath, history |-> s.history,
      discoveredPaths |-> s.discoveredPaths, evidenceCollected |-> s.evidenceCollected,
      gameState |-> s.gameState, bootSequence |-> s.bootSequence]

\* A save of an earlier process of the same session: the player has opened
\* /data, collected one forbidden file and gone to /home/user.
EarlyGame ==
  LET s == Replay(AfterBoot, <<
             <<Txt("cd"), <<Slash, "data">>, Txt(CrackKey)>>,
             <<Txt("cat"), Txt("zhengju_4.txt")>>,
             <<Txt("cd"), <<Slash, "home", Slash, "user">>>> >>)
  IN [fileSystem |-> s.fileSystem, currentPath |-> s.currentPath, history |-> s.history,
      discoveredPaths |-> s.discoveredPaths, evidenceCollected |-> s.evidenceCollected,
      gameState |-> s.gameState, bootSequence |-> s.bootSequence]

\* A save of an earlier process of the same session: the player has opened
\* /data, collected the six required files and gone to /home/user.
ReadyGame ==
  LET s == Replay(AfterBoot, <<
             <<Txt("cd"), <<Slash, "data">>, Txt(CrackKey)>>,
             <<Txt("cat"), Txt("zhengju_1.txt")>>,
             <<Txt("search"), Txt("ChenBing-LiuQingyuan")>>,
             <<Txt("cat"), Txt("zhengju_3.txt")>>,
             <<Txt("cat"), Txt("zhengju_5.txt")>>,
             <<Txt("cat"), Txt("zhengju_6.txt")>>,
             <<Txt("cat"), Txt("zhengju_8.txt")>>,
             <<Txt("cd"), <<Slash, "home", Slash, "user">>>> >>)
  IN [fileSystem |-> s.fileSystem, currentPath |-> s.currentPath, history |-> s.history,
      discoveredPaths |-> s.discoveredPaths, evidenceCollected |-> s.evidenceCollected,
      gameState |-> s.gameState, bootSequence |-> s.bootSequence]

\* A save of an earlier process of the same session that was ended while it
\* was booting, with two lines of the boot log played.
BootingGame == [DefaultState EXCEPT !.bootSequence = SubSeq(steps, 1, 2)]

\* The first render and its effects: the state from initializeGameState, and
\* the boot effect, which starts the boot sequence when the phase is BOOT.
Mount(initialState) ==
  /\ fileSystem' = initialState.fileSystem
  /\ currentPath' = initialState.currentPath
  /\ history' = initialState.history
  /\ discoveredPaths' = initialState.discoveredPaths
  /\ evidenceCollected' = initialState.evidenceCollected
  /\ gameState' = initialState.gameState
  /\ bootSequence' = initialState.bootSequence
  /\ bootStartedRef' = (initialState.gameState = BOOT)
  /\ timers' = IF initialState.gameState = BOOT THEN BootTimers ELSE << >>

\* The process starts with nothing saved, or with a save under SAVE_KEY.
Init ==
  /\ \E initialState \in {DefaultState, BootingGame, EarlyGame, ReadyGame, SavedGame} :
       /\ fileSystem = initialState.fileSystem
       /\ currentPath = initialState.currentPath
       /\ history = initialState.history
       /\ discoveredPaths = initialState.discoveredPaths
       /\ evidenceCollected = initialState.evidenceCollected
       /\ gameState = initialState.gameState
       /\ bootSequence = initialState.bootSequence
       /\ bootStartedRef = (initialState.gameState = BOOT)
       /\ timers = IF initialState.gameState = BOOT THEN BootTimers ELSE << >>
  /\ checkpoint = NoItem
  /\ inputs = 0

\* setState of everything a handler or continuation has set.
Commit(s) ==
  /\ fileSystem' = s.fileSystem
  /\ currentPath' = s.currentPath
  /\ history' = s.history
  /\ discoveredPaths' = s.discoveredPaths
  /\ evidenceCollected' = s.evidenceCollected
  /\ gameState' = s.gameState
  /\ bootSequence' = s.bootSequence
  /\ timers' = s.timers
  /\ checkpoint' = s.checkpoint

\* ------------------------------------------------------------------ timers
\* Mutant of disguiseResult: the required files are tested first.
disguiseRequiredFirst(s, t) ==
  IF t.hasAllRequired THEN [s EXCEPT !.gameState = WIN]
  ELSE IF t.hasForbidden THEN [s EXCEPT !.gameState = LOSE]
  ELSE addToHistory(s, s.currentPath, "output", "verification failed", << >>)

\* Mutant of disguiseResult: the files of /home/user are looked at when the
\* callback runs.
disguiseResultNow(s, t) ==
  IF hasForbidden(s.fileSystem) THEN [s EXCEPT !.gameState = LOSE]
  ELSE IF hasAllRequired(s.fileSystem) THEN [s EXCEPT !.gameState = WIN]
  ELSE addToHistory(s, s.currentPath, "output", "verification failed", << >>)

\* The callback that the DISGUISE script sets, with the two values it captured.
disguiseResult(s, t) ==
  IF t.hasForbidden THEN [s EXCEPT !.gameState = LOSE]
  ELSE IF t.hasAllRequired THEN [s EXCEPT !.gameState = WIN]
  ELSE addToHistory(s, s.currentPath, "output", "verification failed", << >>)

\* The callback of the timer t, run on the state s.
Continuation(s, t) ==
  CASE t.kind = "BOOT_STEP" ->
         LET s1 == [s EXCEPT !.bootSequence = Append(@, steps[t.index])]
         IN IF t.index = Len(steps)
            THEN [addToHistory(
                    setTimeout(s1, Timer("BOOT_DONE", BootDoneDelay, 0, FALSE, FALSE)),
                    s.currentPath, "system", "connection established", << >>)
                  EXCEPT !.currentPath = RootPath]
            ELSE s1
    [] t.kind = "BOOT_DONE" -> [s EXCEPT !.gameState = PLAYING]
    [] t.kind = "ALARM_SCRIPT" ->
         addToHistory(s, s.currentPath, "monologue", "no evidence, no case", << >>)
    [] t.kind = "CRACK_SCRIPT" ->
         addToHistory(s, s.currentPath, "system", "key", Txt(CrackKey))
    [] t.kind = "DISGUISE_SCRIPT" -> disguiseResult(s, t)

\* The timer at position i is due first: every timer set before it has a
\* longer delay (a timer set earlier with the same or a shorter delay is due
\* earlier; one with a longer delay may be due earlier or later).
Due(i) == \A j \in 1..(i - 1) : timers[j].delay > timers[i].delay

\* The timer at position i fires: it leaves the queue and its callback runs.
FireAt(i) ==
  /\ Due(i)
  /\ Commit(Continuation(
       [State EXCEPT !.timers = SubSeq(timers, 1, i - 1) \o SubSeq(timers, i + 1, Len(timers))],
       timers[i]))
  /\ UNCHANGED <<bootStartedRef, inputs>>

BootStep == \E i \in 1..Len(timers) : timers[i].kind = "BOOT_STEP" /\ FireAt(i)

BootDone == \E i \in 1..Len(timers) : timers[i].kind = "BOOT_DONE" /\ FireAt(i)

AlarmResult == \E i \in 1..Len(timers) : timers[i].kind = "ALARM_SCRIPT" /\ FireAt(i)

CrackResult == \E i \in 1..Len(timers) : timers[i].kind = "CRACK_SCRIPT" /\ FireAt(i)

DisguiseResult == \E i \in 1..Len(timers) : timers[i].kind = "DISGUISE_SCRIPT" /\ FireAt(i)

\* ------------------------------------------------------------------ player
\* The player enters the command line with the words parts; the terminal is
\* rendered in PLAYING only.
Enter(parts) ==
  /\ gameState = PLAYING
  /\ inputs < MaxInputs
  /\ Commit(handleCommand(State, parts))
  /\ inputs' = inputs + 1
  /\ UNCHANGED bootStartedRef

Command == \E parts \in Commands : Enter(parts)

\* The player double-clicks a directory of the file tree.
TreeNavigate ==
  /\ gameState = PLAYING
  /\ inputs < MaxInputs
  /\ \E pathStr \in Navigable(fileSystem, <<Slash>>, discoveredPaths) :
       currentPath' = handleTreeNavigate(pathStr)
  /\ inputs' = inputs + 1
  /\ UNCHANGED <<fileSystem, history, discoveredPaths, evidenceCollected, gameState,
                 bootSequence, bootStartedRef, timers, checkpoint>>

\* restoreFromCheckpoint, the button of the two ending screens
restoreFromCheckpoint ==
  /\ gameState \in {WIN, LOSE}
  /\ inputs < MaxInputs
  /\ inputs' = inputs + 1
  /\ IF checkpoint.present
     THEN /\ fileSystem' = checkpoint.fileSystem
          /\ currentPath' = checkpoint.currentPath
          /\ history' = checkpoint.history
          /\ discoveredPaths' = checkpoint.discoveredPaths
          /\ evidenceCollected' = checkpoint.evidenceCollected
          /\ gameState' = PLAYING
          /\ bootSequence' = checkpoint.bootSequence
     ELSE UNCHANGED <<fileSystem, currentPath, history, discoveredPaths,
                      evidenceCollected, gameState, bootSequence>>
  /\ UNCHANGED <<bootStartedRef, timers, checkpoint>>

\* Mutant of handleClearSave: the item under SAVE_KEY is not removed.
clearCheckpointOnly ==
  /\ gameState \in {PLAYING, WIN, LOSE}
  /\ inputs < MaxInputs
  /\ Mount(initializeGameState(stringifySave(State)))
  /\ checkpoint' = NoItem
  /\ inputs' = inputs + 1

\* handleClearSave, confirmed: both items are removed and the page is loaded
\* anew, so that initializeGameState finds nothing under SAVE_KEY.
handleClearSave ==
  /\ gameState \in {PLAYING, WIN, LOSE}
  /\ inputs < MaxInputs
  /\ Mount(initializeGameState(NoItem))
  /\ checkpoint' = NoItem
  /\ inputs' = inputs + 1

\* The page is loaded again: the auto-save effect has stored the state of the
\* last render under SAVE_KEY, and initializeGameState returns it.  The timers
\* of the old page are gone.
Reload ==
  /\ inputs < MaxInputs
  /\ Mount(initializeGameState(stringifySave(State)))
  /\ inputs' = inputs + 1
  /\ UNCHANGED checkpoint

Next ==
  \/ BootStep
  \/ BootDone
  \/ Command
  \/ TreeNavigate
  \/ AlarmResult
  \/ CrackResult
  \/ DisguiseResult
  \/ restoreFromCheckpoint
  \/ handleClearSave
  \/ Reload

Spec == Init /\ [][Next]_vars

\* ------------------------------------------------------------------ resolvePath
\* Targets of resolvePath: the root, the parent, absolute targets (with empty
\* segments and with a '..' segment), and relative ones (with a slash, and
\* with '..' inside).
ResolveTargets ==
  { <<Slash>>, <<"..">>, <<Slash, "data">>, <<Slash, "home", Slash, "user">>,
    <<Slash, Slash, "home", Slash, Slash, "user", Slash>>, <<Slash, "data", Slash, "..">>,
    <<"user">>, <<"home", Slash, "user">>, <<"..", Slash, "data">>, <<".">> }

\* The current paths that resolvePath starts from.
ResolveStarts == { RootPath, HomeUserPath }

\* resolvePath applied to target, with the result taken as the current path
\* whether or not the tree has a node there; the target is kept as an input
\* line of the transcript.
Resolve(target) ==
  /\ inputs < MaxInputs
  /\ inputs' = inputs + 1
  /\ currentPath' = resolvePath(target, currentPath)
  /\ history' = addToHistory(State, currentPath, "input", "input", target).history
  /\ UNCHANGED <<fileSystem, discoveredPaths, evidenceCollected, gameState,
                 bootSequence, bootStartedRef, timers, checkpoint>>

InitResolve ==
  /\ currentPath \in ResolveStarts
  /\ fileSystem = INITIAL_FILE_SYSTEM
  /\ history = << >>
  /\ discoveredPaths = {<<Slash>>}
  /\ evidenceCollected = {}
  /\ gameState = PLAYING
  /\ bootSequence = steps
  /\ bootStartedRef = FALSE
  /\ timers = << >>
  /\ checkpoint = NoItem
  /\ inputs = 0

NextResolve == \E target \in ResolveTargets : Resolve(target)

\* resolvePath applied again and again to targets from ResolveTargets.
SpecResolve == InitResolve /\ [][NextResolve]_vars

\* The steps of a process that is not ended: no reload, no clear-and-restart.
NextAlive ==
  \/ BootStep
  \/ BootDone
  \/ Command
  \/ TreeNavigate
  \/ AlarmResult
  \/ CrackResult
  \/ DisguiseResult
  \/ restoreFromCheckpoint

\* A process that is not ended, in which every timer that is due fires:
\* setTimeout has no cancellation, and no handler blocks the event loop.
SpecAlive ==
  /\ Init
  /\ [][NextAlive]_vars
  /\ WF_vars(BootStep)
  /\ WF_vars(BootDone)
  /\ WF_vars(AlarmResult)
  /\ WF_vars(CrackResult)
  /\ WF_vars(DisguiseResult)

\* ================================================================== claims
\* The step enters a command line (necessary for Enter, and cheap to test).
InputStep ==
  /\ inputs' = inputs + 1
  /\ history' # << >>
  /\ history'[1].type = "input"

\* Each command line of the player as it is echoed in the transcript.
Echo == [parts \in Commands |-> Words(parts)]

\* The step is the entry of the command line parts.
Entered(parts) ==
  /\ history'[1].content.arg = Echo[parts]
  /\ Enter(parts)

\* The player's commands by their verb.
CdCommands == { parts \in Commands : parts[1] = Txt("cd") }

\* The node that the words of a cd command name in the state before it.
CdTarget(parts) == findNode(resolvePath(parts[2], currentPath), fileSystem)

\* The cd command names a directory that carries a password.
GatedCd(parts) ==
  /\ Len(parts) >= 2
  /\ CdTarget(parts) # null
  /\ CdTarget(parts).type = DIRECTORY
  /\ Truthy(CdTarget(parts).password)

\* The last line of the transcript.
LastLine == history[Len(history)]

\* C1: for a directory carrying a password P, `cd <dir> <secret>` with a secret
\* other than P, or with none, leaves the current path and the tree as they
\* are and prints the access-denied line; `cd <dir> P` makes the directory the
\* current path and clears the node's password and isLocked, and a `cd <dir>`
\* without a secret entered next succeeds.
C1_CdGate ==
  [][InputStep => \A parts \in CdCommands :
       (Entered(parts) /\ GatedCd(parts)) =>
         LET targetPath == resolvePath(parts[2], currentPath)
             P == CdTarget(parts).password
         IN IF Len(parts) = 3 /\ parts[3] = Txt(P)
            THEN /\ currentPath' = targetPath
                 /\ findNode(targetPath, fileSystem').password = undefined
                 /\ ~findNode(targetPath, fileSystem').isLocked
                 /\ handleCommand(State', <<Txt("cd"), parts[2]>>).currentPath
                      = resolvePath(parts[2], currentPath')
                 /\ findNode(resolvePath(parts[2], currentPath'), fileSystem')
                      = findNode(targetPath, fileSystem')
            ELSE /\ currentPath' = currentPath
                 /\ fileSystem' = fileSystem
                 /\ findNode(targetPath, fileSystem').password = P
                 /\ LastLine'.content.msg = "access denied"]_vars

\* C1 witness: /vault has been opened with its password and is the current
\* directory.
C1_Witness ==
  /\ currentPath = << << >>, Txt("vault") >>
  /\ findNode(currentPath, fileSystem).password = undefined
  /\ findNode(currentPath, INITIAL_FILE_SYSTEM).password = "0614"
  /\ history[1].content.arg = Words(<<Txt("cd"), <<Slash, "vault">>, Txt("0614")>>)
  /\ Len(history) = 1

RECURSIVE PathsBelow(_, _)
\* The paths of the nodes of the tree below node, whose own path is path.
PathsBelow(node, path) ==
  {path} \cup UNION { PathsBelow(node.children[i], Append(path, Txt(node.children[i].name)))
                      : i \in 1..Len(node.children) }

\* The paths of the nodes that carry a password when a game starts.
GatedPaths ==
  { p \in PathsBelow(INITIAL_FILE_SYSTEM, RootPath) :
      Truthy(findNode(p, INITIAL_FILE_SYSTEM).password) }

\* The node at path p, gated when the game started, is in the tree fs without
\* a password: it has been unlocked.
OpenedIn(fs, p) == findNode(p, fs) # null /\ ~Truthy(findNode(p, fs).password)

Opened(p) == OpenedIn(fileSystem, p)

VaultPath == << << >>, Txt("vault") >>

\* C2 as claimed: a node whose password has been cleared carries none in any
\* later state of the session, restore() included (a step of clear-and-restart
\* begins a new game and is left aside).
C2_NeverGatedAgain ==
  [][\A p \in GatedPaths : (Opened(p) /\ ~handleClearSave) => Opened(p)']_vars

\* C2, amended: a node whose password has been cleared carries none after any
\* command, file-tree navigation, script continuation or page reload; restore()
\* puts the checkpointed tree back, in which the node is gated again exactly
\* when it was unlocked only after the checkpoint was written.
C2_UnlockPermanent ==
  [][\A p \in GatedPaths :
       /\ (Opened(p) /\ ~handleClearSave /\ ~restoreFromCheckpoint) => Opened(p)'
       /\ (restoreFromCheckpoint /\ checkpoint.present)
            => (Opened(p)' <=> OpenedIn(checkpoint.fileSystem, p))]_vars

\* C2 witness: an ending is on screen with /vault unlocked, and the checkpoint
\* holds a tree in which /vault still carries its password.
C2_Witness ==
  /\ gameState \in {WIN, LOSE}
  /\ Opened(VaultPath)
  /\ checkpoint.present
  /\ ~OpenedIn(checkpoint.fileSystem, VaultPath)

\* The children of /home/user in the tree fs.
HomeChildren(fs) == findNode(HomeUserPath, fs).children

\* The children of /home/user in fs that are named n.
HomeNamed(fs, n) ==
  { i \in 1..Len(HomeChildren(fs)) : HomeChildren(fs)[i].name = n }

\* The names of the children of /home/user in fs, in their order.
HomeNames(fs) == [i \in 1..Len(HomeChildren(fs)) |-> HomeChildren(fs)[i].name]

\* The player's commands that can collect evidence.
CollectCommands == { parts \in Commands : parts[1] \in {Txt("cat"), Txt("search")} }

\* C3: evidence collection is idempotent.  Every name of the ledger has
\* exactly one child in /home/user, a copy with isEvidence cleared.  A cat or
\* search leaves every name collected before in the ledger with its one copy;
\* a name it adds to the ledger has exactly one copy afterwards; and when it
\* adds no name, the children of /home/user are the same as before.
C3_EvidenceIdempotent ==
  /\ [](\A n \in evidenceCollected :
          /\ Cardinality(HomeNamed(fileSystem, n)) = 1
          /\ \A i \in HomeNamed(fileSystem, n) : ~HomeChildren(fileSystem)[i].isEvidence)
  /\ [][InputStep => \A parts \in CollectCommands :
          Entered(parts) =>
            /\ evidenceCollected \subseteq evidenceCollected'
            /\ \A n \in evidenceCollected' :
                 Cardinality(HomeNamed(fileSystem', n)) = 1
            /\ evidenceCollected' = evidenceCollected
                 => HomeNames(fileSystem') = HomeNames(fileSystem)]_vars

\* C3 witness: zhengju_1.txt, already in the ledger, has been read again in
\* /data: the transcript shows its content and no second collection.
C3_Witness ==
  /\ Len(history) = 2
  /\ history[1].path = <<Slash, "data">>
  /\ history[1].content.arg = Words(<<Txt("cat"), Txt("zhengju_1.txt")>>)
  /\ history[2].content.msg = "content"
  /\ "zhengju_1.txt" \in evidenceCollected
  /\ Cardinality(HomeNamed(fileSystem, "zhengju_1.txt")) = 1

\* The file that './weizhuang.sh' and 'cat weizhuang.sh' name in the current
\* directory.
DisguiseNode == FindChild(findNode(currentPath, fileSystem), Txt("weizhuang.sh"))

\* The player's commands that run the file weizhuang.sh of the current directory.
DisguiseCommands ==
  { <<(<<".", Slash, "weizhuang.sh">>)>>, <<Txt("cat"), Txt("weizhuang.sh")>> }

\* The command parts invokes the DISGUISE script in the state before it.
InvokesDisguise(parts) ==
  /\ DisguiseNode # null
  /\ DisguiseNode.scriptAction = "DISGUISE_SCRIPT"
  /\ parts[1] = Txt("cat") => ~DisguiseNode.isHidden

\* The names of the children of /home/user.
IntakeNames == { HomeChildren(fileSystem)[i].name : i \in 1..Len(HomeChildren(fileSystem)) }

Range(seq) == { seq[i] : i \in 1..Len(seq) }

\* The timer that the step has set.
NewTimer == timers'[Len(timers')]

\* A continuation of the DISGUISE script is pending with these captured values.
Pending(hasF, hasR) ==
  \E i \in 1..Len(timers) :
    /\ timers[i].kind = "DISGUISE_SCRIPT"
    /\ timers[i].hasForbidden = hasF
    /\ timers[i].hasAllRequired = hasR

\* C4: the DISGUISE script, invoked with at least six names in the ledger and
\* a forbidden name in /home/user, sets a continuation that has captured the
\* forbidden file, also when all six required names are there; and a pending
\* continuation that has captured a forbidden file leads to the phase LOSE,
\* whether or not it has captured all required files.
C4_ForbiddenLoses ==
  /\ [][InputStep => \A parts \in DisguiseCommands :
          ( /\ Entered(parts)
            /\ InvokesDisguise(parts)
            /\ Cardinality(evidenceCollected) >= MinEvidence
            /\ Range(forbidden) \cap IntakeNames # {} )
          => /\ Len(timers') = Len(timers) + 1
             /\ NewTimer.kind = "DISGUISE_SCRIPT"
             /\ NewTimer.hasForbidden
             /\ NewTimer.hasAllRequired = (Range(required) \subseteq IntakeNames)]_vars
  /\ \A hasR \in BOOLEAN : Pending(TRUE, hasR) ~> (gameState = LOSE)

\* C4 witness: the phase is LOSE and the checkpoint written by the invocation
\* holds all six required files and a forbidden one in /home/user.
C4_Witness ==
  /\ gameState = LOSE
  /\ checkpoint.present
  /\ hasAllRequired(checkpoint.fileSystem)
  /\ hasForbidden(checkpoint.fileSystem)
  /\ ~Pending(TRUE, TRUE)

\* C5: the DISGUISE script, invoked with at least six names in the ledger, all
\* six required names in /home/user and no forbidden name there, sets a
\* continuation that has captured exactly that; and such a pending
\* continuation leads to the phase WIN.
C5_RequiredWins ==
  /\ [][InputStep => \A parts \in DisguiseCommands :
          ( /\ Entered(parts)
            /\ InvokesDisguise(parts)
            /\ Cardinality(evidenceCollected) >= MinEvidence
            /\ Range(required) \subseteq IntakeNames
            /\ Range(forbidden) \cap IntakeNames = {} )
          => /\ Len(timers') = Len(timers) + 1
             /\ NewTimer.kind = "DISGUISE_SCRIPT"
             /\ ~NewTimer.hasForbidden
             /\ NewTimer.hasAllRequired]_vars
  /\ Pending(FALSE, TRUE) ~> (gameState = WIN)

\* C5 witness: the phase is WIN and the checkpoint written by the invocation
\* holds all six required files and no forbidden one in /home/user, with at
\* least six names in its ledger.
C5_Witness ==
  /\ gameState = WIN
  /\ checkpoint.present
  /\ hasAllRequired(checkpoint.fileSystem)
  /\ ~hasForbidden(checkpoint.fileSystem)
  /\ Cardinality(checkpoint.evidenceCollected) >= MinEvidence
  /\ timers = << >>

\* C6: the DISGUISE script, invoked with fewer than six names in the ledger,
\* prints the incomplete-evidence line and does nothing else, whatever
\* /home/user holds: the checkpoint and the timers are as before, the phase
\* stays PLAYING, and tree, path, ledger and discovered paths are unchanged.
C6_IncompleteEvidence ==
  [][InputStep => \A parts \in DisguiseCommands :
       ( /\ Entered(parts)
         /\ InvokesDisguise(parts)
         /\ Cardinality(evidenceCollected) < MinEvidence )
       => /\ LastLine'.content.msg = "evidence incomplete"
          /\ Len(history') = 2
          /\ checkpoint' = checkpoint
          /\ timers' = timers
          /\ gameState = PLAYING
          /\ gameState' = PLAYING
          /\ UNCHANGED <<fileSystem, currentPath, evidenceCollected, discoveredPaths>>]_vars

\* C6 witness: the script has been run in /home/user with fewer than six names
\* in the ledger and a forbidden file in /home/user, and has answered with the
\* incomplete-evidence line.
C6_Witness ==
  /\ Len(history) = 2
  /\ history[1].content.arg = Echo[<<(<<".", Slash, "weizhuang.sh">>)>>]
  /\ history[2].content.msg = "evidence incomplete"
  /\ currentPath = HomeUserPath
  /\ Cardinality(evidenceCollected) < MinEvidence
  /\ hasForbidden(fileSystem)
  /\ ~checkpoint.present

\* C7: WIN and LOSE are terminal: a step that starts in the phase WIN or LOSE
\* and changes the phase is restoreFromCheckpoint or handleClearSave; no
\* continuation of a script moves the phase between the endings or out of one.
C7_EndingsTerminal ==
  [][(gameState \in {WIN, LOSE} /\ gameState' # gameState)
       => (restoreFromCheckpoint \/ handleClearSave)]_vars

\* The item that the DISGUISE script stores when it is invoked in this state.
CheckpointHere ==
  [present |-> TRUE, fileSystem |-> fileSystem, currentPath |-> currentPath,
   history |-> history, discoveredPaths |-> discoveredPaths,
   evidenceCollected |-> evidenceCollected, gameState |-> PLAYING,
   bootSequence |-> bootSequence]

\* The step is an invocation of the DISGUISE script with six names or more in
\* the ledger.
DisguiseStarts ==
  /\ InputStep
  /\ Cardinality(evidenceCollected) >= MinEvidence
  /\ \E parts \in DisguiseCommands : Entered(parts) /\ InvokesDisguise(parts)

\* C8: in every state whose phase is WIN or LOSE a checkpoint is stored; the
\* stored checkpoint is the one the last invocation of the DISGUISE script
\* wrote, holding tree, path, ledger, discovered paths and transcript of the
\* state it was invoked in and the phase PLAYING; and restoreFromCheckpoint
\* in such a state puts the phase to PLAYING and tree, path, ledger,
\* discovered paths and transcript to the checkpoint's values.
C8_RestoreCheckpoint ==
  /\ [](gameState \in {WIN, LOSE} => checkpoint.present)
  /\ [][/\ DisguiseStarts => checkpoint' = CheckpointHere
        /\ checkpoint' # checkpoint => (DisguiseStarts \/ handleClearSave)
        /\ (restoreFromCheckpoint /\ gameState \in {WIN, LOSE})
             => /\ gameState' = PLAYING
                /\ fileSystem' = checkpoint.fileSystem
                /\ currentPath' = checkpoint.currentPath
                /\ evidenceCollected' = checkpoint.evidenceCollected
                /\ discoveredPaths' = checkpoint.discoveredPaths
                /\ history' = checkpoint.history
                /\ checkpoint.gameState = PLAYING]_vars

\* C8 witness: the script was run, its continuation has set an ending, and
\* restore has put back the checkpointed game: the transcript is the one from
\* before the invocation, no continuation is pending, the phase is PLAYING.
C8_Witness ==
  /\ gameState = PLAYING
  /\ checkpoint.present
  /\ timers = << >>
  /\ inputs = 2
  /\ history[1].content.arg # Echo[<<(<<".", Slash, "weizhuang.sh">>)>>]
  /\ fileSystem = checkpoint.fileSystem
  /\ currentPath = checkpoint.currentPath
  /\ history = checkpoint.history
  /\ evidenceCollected = checkpoint.evidenceCollected
  /\ discoveredPaths = checkpoint.discoveredPaths
  /\ Cardinality(evidenceCollected) >= MinEvidence

RmCommands == { parts \in Commands : parts[1] = Txt("rm") }

\* C9: `rm <name>` entered while the current path is not /home/user prints the
\* access-denied line of rm and nothing else, whether or not the current
\* directory has a child of that name, and leaves the tree and the ledger as
\* they are.
C9_RmOutsideIntake ==
  [][InputStep => \A parts \in RmCommands :
       (Entered(parts) /\ getPathString(currentPath) # getPathString(HomeUserPath))
       => /\ Len(history') = 2
          /\ LastLine'.content.msg = "permission denied"
          /\ fileSystem' = fileSystem
          /\ evidenceCollected' = evidenceCollected]_vars

\* C9 witness: rm was refused in /data for a name that /data has, and the
\* file is still there.
C9_Witness ==
  /\ currentPath = << << >>, Txt("data") >>
  /\ Len(history) = 2
  /\ history[1].content.arg = Echo[<<Txt("rm"), Txt("zhengju_1.txt")>>]
  /\ history[2].content.msg = "permission denied"
  /\ FindChild(findNode(currentPath, fileSystem), Txt("zhengju_1.txt")) # null

LsCommand == <<Txt("ls")>>

\* The commands that enter a directory: cd, and search with its auto-enter.
EnterCommands == { parts \in Commands : parts[1] \in {Txt("cd"), Txt("search")} }

\* The paths of the nodes that the file tree shows.
TreeShown == Rendered(fileSystem, <<Slash>>, discoveredPaths)

\* The path string of the directory that holds the node at path string q.
ParentString(q) == IF Len(q) <= 2 THEN <<Slash>> ELSE SubSeq(q, 1, Len(q) - 2)

Loaded == initializeGameState(stringifySave(State))

\* C11: in every reachable state, the item that the auto-save effect has
\* stored, loaded at process start, gives the tree, current path, transcript,
\* discovered paths, ledger and phase (and boot log) of the state that was
\* saved; a reload starts the new process with exactly this loaded state.
C11_SaveRoundTrip ==
  Loaded = [fileSystem |-> fileSystem, currentPath |-> currentPath,
            history |-> history, discoveredPaths |-> discoveredPaths,
            evidenceCollected |-> evidenceCollected, gameState |-> gameState,
            bootSequence |-> bootSequence]

\* C11 witness: the page was loaded again while the continuation of the
\* DISGUISE script was pending: the continuation is gone, and the loaded state
\* has the transcript, the ledger and the tree with the password of /data
\* cleared.
C11_Witness ==
  /\ inputs = 2
  /\ gameState = PLAYING
  /\ timers = << >>
  /\ LastLine.content.msg = "packing"
  /\ Cardinality(evidenceCollected) >= MinEvidence
  /\ findNode(<< << >>, Txt("data") >>, fileSystem).password = undefined
  /\ "password" \notin DOMAIN stringifySave(State).fileSystem.children[2]

\* C12: clear-and-restart removes the checkpoint and the save: the process it
\* starts has no checkpoint and begins in BOOT with the initial tree, the
\* current path at the root, an empty transcript, an empty ledger, the
\* discovered set {/} and an empty boot log, with the boot sequence started.
C12_ClearAndRestart ==
  [][handleClearSave =>
       /\ checkpoint' = NoItem
       /\ gameState' = BOOT
       /\ fileSystem' = INITIAL_FILE_SYSTEM
       /\ currentPath' = RootPath
       /\ history' = << >>
       /\ evidenceCollected' = {}
       /\ discoveredPaths' = {<<Slash>>}
       /\ bootSequence' = << >>
       /\ timers' = BootTimers]_vars

\* C12 witness: a process that has taken the player's inputs is in BOOT with
\* the default content, nothing of the boot log played and no checkpoint.
C12_Witness ==
  /\ inputs >= 2
  /\ gameState = BOOT
  /\ checkpoint = NoItem
  /\ bootSequence = << >>
  /\ bootStartedRef
  /\ fileSystem = INITIAL_FILE_SYSTEM
  /\ history = << >>
  /\ evidenceCollected = {}

\* The boot step i is scheduled and has not fired.
BootPending(i) ==
  \E k \in 1..Len(timers) : timers[k].kind = "BOOT_STEP" /\ timers[k].index = i

\* C13: in a process that is not ended, every scheduled boot step fires, and
\* the phase BOOT leads to the phase PLAYING with the current path at the
\* root, also when the process was started from a save made during boot.
C13_BootCompletes ==
  /\ \A i \in 1..Len(steps) : BootPending(i) ~> ~BootPending(i)
  /\ (gameState = BOOT) ~> (gameState = PLAYING /\ currentPath = RootPath)
  /\ [][(gameState = BOOT /\ gameState' # BOOT)
          => (gameState' = PLAYING /\ currentPath' = RootPath /\ ~BootPending(Len(steps)))]_vars

\* C13 witness: a process started in BOOT from a save with two boot lines has
\* played all its boot steps and is in PLAYING at the root.
C13_Witness ==
  /\ gameState = PLAYING
  /\ currentPath = RootPath
  /\ timers = << >>
  /\ bootStartedRef
  /\ bootSequence = SubSeq(steps, 1, 2) \o steps

\* C14: in every reachable state the boot log is a prefix of the six fixed
\* boot lines: each line at most once and in the fixed order.
C14_BootLogPrefix ==
  \E n \in 0..Len(steps) : bootSequence = SubSeq(steps, 1, n)

CatCommands == { parts \in Commands : parts[1] = Txt("cat") }

\* The node that `cat <name>` names in the state before the step: the FILE at
\* the resolved path, or else the child of the current directory of that name.
CatNode(parts) ==
  LET byPath == findNode(resolvePath(parts[2], currentPath), fileSystem)
  IN IF byPath # null /\ byPath.type = FILE THEN byPath
     ELSE FindChild(findNode(currentPath, fileSystem), parts[2])

\* C15: cat on a FILE that is hidden prints the not-found line and nothing
\* else: no content, no script action (no timer, no checkpoint, no change of
\* phase), nothing added to the ledger and no change of the tree.
C15_CatHidden ==
  [][InputStep => \A parts \in CatCommands :
       ( /\ Entered(parts)
         /\ CatNode(parts) # null
         /\ CatNode(parts).type = FILE
         /\ CatNode(parts).isHidden )
       => /\ Len(history') = 2
          /\ LastLine'.content.msg = "file not found (maybe hidden)"
          /\ UNCHANGED <<fileSystem, currentPath, evidenceCollected, discoveredPaths,
                         gameState, timers, checkpoint>>]_vars

\* C15 witness: cat was entered in /data for the hidden evidence file there
\* and has answered with the not-found line; the file is still hidden and not
\* in the ledger.
C15_Witness ==
  /\ currentPath = << << >>, Txt("data") >>
  /\ Len(history) = 2
  /\ history[1].content.arg = Echo[<<Txt("cat"), Txt("ChenBing-LiuQingyuan")>>]
  /\ history[2].content.msg = "file not found (maybe hidden)"
  /\ FindChild(findNode(currentPath, fileSystem), Txt("ChenBing-LiuQingyuan")).isHidden
  /\ FindChild(findNode(currentPath, fileSystem), Txt("ChenBing-LiuQingyuan")).isEvidence
  /\ "ChenBing-LiuQingyuan" \notin evidenceCollected

\* C16: a FILE with a password is gated for cat: entered without the file's
\* password as second argument, cat prints the denial, or at least neither
\* prints the content, collects the evidence nor runs the script, and leaves
\* the state unchanged.
C16_CatGate ==
  [][InputStep => \A parts \in CatCommands :
       ( /\ Entered(parts)
         /\ CatNode(parts) # null
         /\ CatNode(parts).type = FILE
         /\ ~CatNode(parts).isHidden
         /\ CatNode(parts).password # undefined
         /\ (Len(parts) < 3 \/ parts[3] # Txt(CatNode(parts).password)) )
       => /\ \A i \in 1..Len(history') : history'[i].content.msg # "content"
          /\ UNCHANGED <<fileSystem, currentPath, evidenceCollected, timers, checkpoint>>]_vars

SearchCommands == { parts \in Commands : parts[1] = Txt("search") }

\* The child of the current directory that `search <name>` names, or null.
SearchNode(parts) == FindChild(findNode(currentPath, fileSystem), parts[2])

\* C17: search on a hidden child of the current directory with exactly that
\* name clears its isHidden and leaves its other properties, its password
\* among them, as they are; the current path becomes the child's path when
\* the child is a DIRECTORY without a password and stays otherwise; no script
\* is run (no timer, no checkpoint, no change of phase), and a hidden file
\* with a scriptAction yields the hint only.  search on a visible child or on
\* a name the directory lacks changes neither tree, path nor ledger.
C17_SearchReveal ==
  [][InputStep => \A parts \in SearchCommands : Entered(parts) =>
       LET node == SearchNode(parts)
           childPath == Append(currentPath, parts[2])
       IN /\ UNCHANGED <<timers, checkpoint, gameState>>
          /\ \A p \in GatedPaths :
               findNode(p, fileSystem) # null =>
                 findNode(p, fileSystem').password = findNode(p, fileSystem).password
          /\ IF node # null /\ node.isHidden
             THEN /\ findNode(childPath, fileSystem') = [node EXCEPT !.isHidden = FALSE]
                  /\ currentPath' = IF node.type = DIRECTORY /\ node.password = undefined
                                    THEN childPath ELSE currentPath
                  /\ (node.password = undefined /\ node.type = FILE
                        /\ node.scriptAction # undefined)
                       => /\ LastLine'.content.msg = "found script file"
                          /\ evidenceCollected' = evidenceCollected
                  /\ node.password # undefined
                       => /\ LastLine'.content.msg = "password needed"
                          /\ evidenceCollected' = evidenceCollected
             ELSE UNCHANGED <<fileSystem, currentPath, evidenceCollected>>]_vars

\* C17 witness: search has revealed the hidden directory /archive, which
\* carries a password: it is visible, still carries the password, and the
\* current path is still the root.
C17_Witness ==
  /\ currentPath = RootPath
  /\ Len(history) = 3
  /\ history[1].content.arg = Echo[<<Txt("search"), Txt("archive")>>]
  /\ LastLine.content.msg = "password needed"
  /\ ~findNode(<< << >>, Txt("archive") >>, fileSystem).isHidden
  /\ findNode(<< << >>, Txt("archive") >>, fileSystem).password = "7788"

\* C18: `rm <name>` entered while the current path is /home/user.  If
\* /home/user has a child of that name, then afterwards it has none, its other
\* children are as before and in their order, the rest of the tree is
\* unchanged, and the ledger is the old one without the name.  If it has no
\* such child, the tree and the ledger are unchanged and the not-found line is
\* printed.
C18_RmInIntake ==
  /\ [](findNode(HomeUserPath, fileSystem) = fileSystem.children[1].children[1])
  /\ [][InputStep => \A parts \in RmCommands :
          (Entered(parts) /\ getPathString(currentPath) = getPathString(HomeUserPath))
          => LET name == NameOf(parts[2])
                 Other(c) == c.name # name
             IN IF HomeNamed(fileSystem, name) # {}
                THEN /\ HomeNamed(fileSystem', name) = {}
                     /\ fileSystem' =
                          [fileSystem EXCEPT !.children[1].children[1].children =
                                               SelectSeq(@, Other)]
                     /\ evidenceCollected' = evidenceCollected \ {name}
                     /\ LastLine'.content.msg = "deleted"
                ELSE /\ UNCHANGED <<fileSystem, evidenceCollected>>
                     /\ LastLine'.content.msg = "File not found"]_vars

\* C18 witness: rm has deleted zhengju_4.txt from /home/user: the file is not
\* there and not in the ledger, and the seven other collected files are.
C18_Witness ==
  /\ currentPath = HomeUserPath
  /\ Len(history) = 2
  /\ history[1].content.arg = Echo[<<Txt("rm"), Txt("zhengju_4.txt")>>]
  /\ history[2].content.msg = "deleted"
  /\ "zhengju_4.txt" \notin userFiles(fileSystem)
  /\ "zhengju_4.txt" \notin evidenceCollected
  /\ Cardinality(evidenceCollected) = 7
  /\ evidenceCollected \subseteq userFiles(fileSystem)

\* The segments of an absolute target: its parts between slashes that are
\* not empty.
RECURSIVE Segments(_)
Segments(target) ==
  IF target = << >> THEN << >>
  ELSE IF target[1] = Slash THEN Segments(Tail(target))
  ELSE << <<target[1]>> >> \o Segments(Tail(target))

\* The step has resolved target.
Resolved(target) == inputs' = inputs + 1 /\ history'[1].content.arg = target

\* C19: resolvePath follows its rules in priority order, for every target and
\* current path: '/' gives the root path; '..' gives the current path without
\* its last segment, and the root at the root; a target that starts with '/'
\* gives the root path followed by the target's non-empty segments; any other
\* target gives the current path with the target appended as one segment.
\* The result is a path in every case, and the tree is no input of it.
C19_ResolveRules ==
  [][\A target \in ResolveTargets : Resolved(target) =>
       /\ Len(currentPath') >= 1
       /\ currentPath'[1] = << >>
       /\ currentPath' =
            IF target = <<Slash>> THEN << << >> >>
            ELSE IF target = <<"..">>
              THEN IF Len(currentPath) = 1 THEN << << >> >>
                   ELSE [i \in 1..(Len(currentPath) - 1) |-> currentPath[i]]
            ELSE IF target[1] = Slash THEN << << >> >> \o Segments(target)
            ELSE currentPath \o <<target>>]_vars

\* C19 witness: after three resolutions, the relative target home/user was
\* appended as one segment to the path /home.
C19_Witness ==
  /\ inputs = 3
  /\ currentPath = << << >>, <<"home">>, <<"home", Slash, "user">> >>
  /\ history[1].content.arg = <<"home", Slash, "user">>

\* The timers without the one at position i.
Without(i) == SubSeq(timers, 1, i - 1) \o SubSeq(timers, i + 1, Len(timers))

\* C20: the ending of a run of the DISGUISE script is decided by /home/user at
\* the invocation.  The invocation captures whether a forbidden name and
\* whether all required names are there; a command entered while the
\* continuation is pending leaves the pending continuations as they are; and
\* the continuation, when it fires, does what its captured values say (LOSE,
\* else WIN, else the verification-failure line), whatever /home/user holds
\* by then.
C20_DecidedAtInvocation ==
  [][/\ DisguiseStarts =>
          /\ NewTimer.hasForbidden = (Range(forbidden) \cap IntakeNames # {})
          /\ NewTimer.hasAllRequired = (Range(required) \subseteq IntakeNames)
     /\ InputStep => \A parts \in Commands :
          Entered(parts) =>
            Len(timers') >= Len(timers) /\ SubSeq(timers', 1, Len(timers)) = timers
     /\ DisguiseResult =>
          \E i \in 1..Len(timers) :
            /\ timers[i].kind = "DISGUISE_SCRIPT"
            /\ timers' = Without(i)
            /\ IF timers[i].hasForbidden THEN gameState' = LOSE /\ history' = history
               ELSE IF timers[i].hasAllRequired THEN gameState' = WIN /\ history' = history
               ELSE /\ gameState' = gameState
                    /\ Len(history') = Len(history) + 1
                    /\ LastLine'.content.msg = "verification failed"]_vars

\* C20 witness: the script was invoked with a forbidden file in /home/user,
\* the file was removed while the continuation was pending, and the
\* continuation has set LOSE although /home/user then held all required
\* files and no forbidden one.
C20_Witness ==
  /\ inputs = 2
  /\ gameState = LOSE
  /\ timers = << >>
  /\ checkpoint.present
  /\ hasForbidden(checkpoint.fileSystem)
  /\ ~hasForbidden(fileSystem)
  /\ hasAllRequired(fileSystem)

\* The objects on the way from the root object to the object target: the
\* positions that are a prefix of target's.
OnPath(target) == { SubSeq(target, 1, n) : n \in 0..Len(target) }

\* What the claim says of one mutation of the tree: heap holds the objects
\* before, res the objects after with the root that was set, target the
\* mutated object.  The root set is a new object and shows the tree of the
\* next state; the root object held before shows the tree as it was; and every
\* object off the path to target is still reached, with its properties as
\* they were.
CopiedOnWrite(heap, res, target) ==
  /\ res.root # RootObject
  /\ TreeOf(res.heap, res.root) = fileSystem'
  /\ TreeOf(res.heap, RootObject) = fileSystem
  /\ \A id \in DOMAIN heap \ OnPath(target) :
       /\ res.heap[id] = heap[id]
       /\ id \in Reachable(res.heap, res.root) \/ id \notin Reachable(heap, RootObject)

\* C21: every mutation of the tree is copy-on-write along the path from the
\* root to the mutated node.  For the unlock of cd (updateFileSystemNode) and
\* for the removal of rm (deleteNode): a new root object is set, the root
\* object held before still shows the tree without the patch, and all
\* objects off the path are shared.
C21_CopyOnWrite ==
  [][InputStep =>
       /\ \A parts \in CdCommands :
            (Entered(parts) /\ GatedCd(parts) /\ fileSystem' # fileSystem) =>
              LET targetPath == resolvePath(parts[2], currentPath)
                  heap == Heap(fileSystem)
              IN CopiedOnWrite(heap,
                   updateObjects(heap, targetPath, [isLocked |-> FALSE, password |-> undefined]),
                   findObject(heap, targetPath, RootObject))
       /\ \A parts \in RmCommands :
            (Entered(parts) /\ fileSystem' # fileSystem) =>
              LET heap == Heap(fileSystem)
                  parent == findObject(heap, currentPath, RootObject)
              IN CopiedOnWrite(heap, deleteObjects(heap, currentPath, parts[2]),
                   FindObject(heap, heap[parent].children, parts[2]))]_vars

\* The step is the entry of an rm command.
RmEntered == InputStep /\ \E parts \in RmCommands : Entered(parts)

\* C22 as claimed: the set of child names of /home/user loses a member in no
\* step other than an rm command: in no other command, no script
\* continuation and no restore() (a step of clear-and-restart begins a new
\* game and is left aside).
C22_OnlyRmRemoves ==
  [][(fileSystem' # fileSystem /\ ~(IntakeNames \subseteq IntakeNames') /\ ~handleClearSave)
       => RmEntered]_vars

\* C22, amended: the set of child names of /home/user loses a member only in
\* an rm command, in restore() and in clear-and-restart.  Every other command,
\* every script continuation, file-tree navigation and page reload keeps all
\* names; restore() leaves the names of the checkpointed tree, so the names
\* added after the checkpoint was written are gone; clear-and-restart leaves
\* the names of the initial tree.
C22_IntakeKeeps ==
  [][/\ (fileSystem' # fileSystem /\ ~(IntakeNames \subseteq IntakeNames'))
          => (RmEntered \/ restoreFromCheckpoint \/ handleClearSave)
     /\ (gameState \in {WIN, LOSE} /\ gameState' = PLAYING /\ restoreFromCheckpoint)
          => IntakeNames' = userFiles(checkpoint.fileSystem)
     /\ (gameState' = BOOT /\ history' = << >> /\ handleClearSave)
          => IntakeNames' = userFiles(INITIAL_FILE_SYSTEM)]_vars

\* C22 witness: an ending is on screen, and /home/user holds a file that was
\* collected after the checkpoint was written: the checkpointed tree, which
\* restore() puts back, does not have it.
C22_Witness ==
  /\ gameState \in {WIN, LOSE}
  /\ checkpoint.present
  /\ timers = << >>
  /\ ~(IntakeNames \subseteq userFiles(checkpoint.fileSystem))
  /\ ~(evidenceCollected \subseteq checkpoint.evidenceCollected)

RECURSIVE WellFormed(_)
\* The tree below node is well formed: a FILE has no children, and the
\* children of a node have pairwise distinct names.
WellFormed(node) ==
  /\ node.type = FILE => node.children = << >>
  /\ \A i, j \in 1..Len(node.children) :
       i < j => node.children[i].name # node.children[j].name
  /\ \A i \in 1..Len(node.children) : WellFormed(node.children[i])

\* C23: in every reachable state the children of every DIRECTORY have
\* pairwise distinct names and no FILE has children; and a cat or search
\* leaves the children of /home/user as they are or adds one child, whose
\* name no child of /home/user had before.
C23_TreeWellFormed ==
  /\ [](WellFormed(fileSystem))
  /\ [][InputStep => \A parts \in CollectCommands :
          Entered(parts) =>
            \/ HomeNames(fileSystem') = HomeNames(fileSystem)
            \/ /\ Len(HomeNames(fileSystem')) = Len(HomeNames(fileSystem)) + 1
               /\ SubSeq(HomeNames(fileSystem'), 1, Len(HomeNames(fileSystem)))
                    = HomeNames(fileSystem)
               /\ HomeNames(fileSystem')[Len(HomeNames(fileSystem'))] \notin IntakeNames]_vars

\* C23 witness: /data/zhengju_2.txt was collected in this process and has been
\* read again from /home/user by its absolute path: /home/user holds one
\* child of that name.
C23_Witness ==
  /\ currentPath = HomeUserPath
  /\ Len(history) = 2
  /\ history[1].content.arg = Echo[<<Txt("cat"), <<Slash, "data", Slash, "zhengju_2.txt">>>>]
  /\ history[2].content.msg = "content"
  /\ Cardinality(evidenceCollected) = 7
  /\ "zhengju_4.txt" \notin evidenceCollected
  /\ Cardinality(HomeNamed(fileSystem, "zhengju_2.txt")) = 1

\* The node that the current path names in the current tree, or null.
CurrentNode == findNode(currentPath, fileSystem)

\* C24: in every reachable state the current path names an existing DIRECTORY
\* of the current tree; and every step that changes the current path (cd,
\* the auto-enter of search, file-tree navigation, the end of the boot
\* sequence, restore) or the tree (rm among others) leads to such a state.
C24_CurrentPathIsDirectory ==
  /\ [](CurrentNode # null /\ CurrentNode.type = DIRECTORY)
  /\ [][(currentPath' # currentPath \/ fileSystem' # fileSystem)
          => (CurrentNode' # null /\ CurrentNode'.type = DIRECTORY)]_vars

\* C24 witness: search has revealed the hidden directory /lab and entered it;
\* the current path names it.
C24_Witness ==
  /\ currentPath = << << >>, Txt("lab") >>
  /\ Len(history) = 3
  /\ history[1].content.arg = Echo[<<Txt("search"), Txt("lab")>>]
  /\ LastLine.content.msg = "entered"
  /\ CurrentNode.type = DIRECTORY
  /\ ~CurrentNode.isHidden

\* A directory on the way from the root to the node at path, that node
\* included, carries a password in the tree fs.
GatedAlong(path, fs) ==
  \E n \in 1..Len(path) :
    /\ findNode(SubSeq(path, 1, n), fs) # null
    /\ Truthy(findNode(SubSeq(path, 1, n), fs).password)

\* The path of the node that `cat <name>` names in the state before the step.
CatPath(parts) ==
  LET byPath == findNode(resolvePath(parts[2], currentPath), fileSystem)
  IN IF byPath # null /\ byPath.type = FILE THEN resolvePath(parts[2], currentPath)
     ELSE Append(currentPath, parts[2])

\* C25: password gating is not bypassed by a path.  In every reachable state
\* neither the current directory nor a directory above it carries a password;
\* and cat prints no content of a file that lies below a directory carrying a
\* password.
C25_NoBypass ==
  /\ [](~GatedAlong(currentPath, fileSystem))
  /\ [][InputStep => \A parts \in CatCommands :
          ( /\ Entered(parts)
            /\ CatNode(parts) # null
            /\ CatNode(parts).type = FILE
            /\ GatedAlong(SubSeq(CatPath(parts), 1, Len(CatPath(parts)) - 1), fileSystem) )
          => \A i \in 1..Len(history') : history'[i].content.msg # "content"]_vars

\* The children of /home/user that are files.
IntakeFiles ==
  { i \in 1..Len(HomeChildren(fileSystem)) : HomeChildren(fileSystem)[i].type = FILE }

\* C26: in every reachable state every name of the ledger is the name of a
\* child of /home/user; and when the DISGUISE script is invoked with six names
\* or more in the ledger, /home/user holds at least six files.
C26_LedgerInIntake ==
  /\ [](evidenceCollected \subseteq IntakeNames)
  /\ [][DisguiseStarts =>
          /\ Cardinality(IntakeFiles) >= MinEvidence
          /\ Cardinality(IntakeNames) >= Cardinality(evidenceCollected)]_vars

\* C26 witness: zhengju_4.txt was removed in /home/user and the DISGUISE
\* script was then invoked: its continuation is pending, the ledger holds the
\* seven other names, and /home/user holds a file of each.
C26_Witness ==
  /\ inputs = 2
  /\ checkpoint.present
  /\ Len(history) = 2
  /\ LastLine.content.msg = "packing"
  /\ Len(checkpoint.history) = 2
  /\ checkpoint.history[1].content.arg = Echo[<<Txt("rm"), Txt("zhengju_4.txt")>>]
  /\ \E i \in 1..Len(timers) : timers[i].kind = "DISGUISE_SCRIPT"
  /\ Cardinality(evidenceCollected) = 7
  /\ "zhengju_4.txt" \notin IntakeNames
  /\ evidenceCollected \subseteq IntakeNames

\* The names of the hidden children of the current directory.
HiddenHere ==
  { CurrentNode.children[i].name :
      i \in { j \in 1..Len(CurrentNode.children) : CurrentNode.children[j].isHidden } }

\* The child of the current directory that the script verb names, or null.
ScriptNode(verb) ==
  FindChild(CurrentNode, ReplaceFirst(verb, <<".", Slash>>, << >>))

\* The first lines that executeScript prints.
ScriptLines == {"connecting", "cracking", "packing", "evidence incomplete"}

\* C27: a node that is hidden is acted on by no command other than search.
\* ls lists no hidden child; cat on a hidden file prints no content, collects
\* nothing and runs nothing; and a script verb that names a hidden script
\* file of the current directory does not invoke its script action: no line
\* of the script is printed, no continuation is set and no checkpoint written.
C27_HiddenUntouched ==
  [][InputStep =>
       /\ Entered(LsCommand) => Range(LastLine'.content.arg) \cap HiddenHere = {}
       /\ \A parts \in CatCommands :
            ( /\ Entered(parts)
              /\ CatNode(parts) # null
              /\ CatNode(parts).type = FILE
              /\ CatNode(parts).isHidden )
            => /\ UNCHANGED <<fileSystem, evidenceCollected, timers, checkpoint>>
               /\ \A i \in 1..Len(history') :
                    history'[i].content.msg \notin ScriptLines \cup {"content"}
       /\ \A verb \in ScriptVerbs :
            ( /\ Entered(<<verb>>)
              /\ ScriptNode(verb) # null
              /\ ScriptNode(verb).isHidden )
            => /\ UNCHANGED <<timers, checkpoint>>
               /\ \A i \in 1..Len(history') :
                    history'[i].content.msg \notin ScriptLines]_vars

====
